---- MODULE Spec2Model ----
(***************************************************************************)
(* Loan-management backend: the user store, the loan store and the        *)
(* requests in flight.  Every handler is an async function; each `await`  *)
(* on the store is a point where other requests run, so a handler is one  *)
(* action per store operation, with the synchronous code before and after *)
(* the operation folded into the action that runs it.                     *)
(***************************************************************************)
EXTENDS Integers, Sequences, FiniteSets, TLC

(* ------------------------------ bounds -------------------------------- *)

\* requests received in a run
MaxRequests == 4

\* loan documents the store may come to hold
MaxLoans == 2

\* requests in flight at a time: a race takes two
Slots == {1, 2}

LoanIds == 1..MaxLoans

\* user identifiers: u1 and u2 are the seeded accounts, u3 the account an
\* admin may create
UserIds == {"u1", "u2", "u3"}

(* ------------------------------ values -------------------------------- *)

NoUser == [exists |-> FALSE, email |-> "none", role |-> "none", isActive |-> FALSE]
\* a value that was never set; as a string value it is told apart from every
\* string of characters
Undefined == "undefined"
Missing == <<Undefined>>

\* a date that was never set; a date that was set is a reading of the clock
NoDate == 0

NoLoan == [exists |-> FALSE, email |-> "none", status |-> "none",
           verifiedBy |-> "none", approvedBy |-> "none",
           verificationDate |-> NoDate, approvalDate |-> NoDate,
           rejectionReason |-> Missing]

\* loanSchema.status enum
LoanStatus == {"pending", "verified", "approved", "rejected"}

\* a string is a sequence of characters; these are the reasons a body carries
ReasonStrings == {<<>>, <<" ">>, <<" ", "x">>}
Reasons == ReasonStrings \cup {Missing}

\* String.prototype.trim, as the schema's trim: true applies it
RECURSIVE TrimLeft(_)
TrimLeft(s) == IF s # <<>> /\ Head(s) = " " THEN TrimLeft(Tail(s)) ELSE s

RECURSIVE TrimRight(_)
TrimRight(s) ==
    IF s # <<>> /\ s[Len(s)] = " " THEN TrimRight(SubSeq(s, 1, Len(s) - 1)) ELSE s

Trim(s) == TrimRight(TrimLeft(s))

\* JavaScript's !rejectionReason: undefined and "" are falsy
Falsy(r) == r = Missing \/ r = <<>>

(* --------------------------- request inputs --------------------------- *)

\* a signed token: its signature state and the userId it encodes
Tokens ==
    {[sig |-> "malformed", userId |-> "none"], [sig |-> "expired", userId |-> "u1"]}
        \cup {[sig |-> "ok", userId |-> u] : u \in UserIds}

\* no token at all
NoToken == [sig |-> "none", userId |-> "none"]

\* the Authorization header, split at spaces; <<>> when the header is absent
Headers == {<<>>, <<"Bearer">>} \cup {<<"Bearer", t>> : t \in Tokens}

\* authHeader && authHeader.split(' ')[1]
BearerToken(authHeader) ==
    IF authHeader = <<>> THEN NoToken
    ELSE IF Len(authHeader) >= 2 THEN authHeader[2] ELSE NoToken

\* jwt.verify: the decoded userId, or "throws" for a bad signature or an expired token
JwtVerify(token) == IF token.sig = "ok" THEN token.userId ELSE "throws"

\* the action keyword of a transition body
ActionWords == {"verify", "approve", "reject", "other"}

\* the email field of an application body
RawEmails == {"a@x.com", "A@x.com", "b@x.com", "bad"}

\* isEmail()
IsEmail(e) == e # "bad"

\* normalizeEmail(): lower-cases the address
NormalizeEmail(e) == IF e = "A@x.com" THEN "a@x.com" ELSE e

MinLoanAmount == 1000
MaxLoanAmount == 10000000
MinMonthlyIncome == 0
MinCreditScore == 300
MaxCreditScore == 850

EmploymentStatuses == {"employed", "self-employed", "unemployed", "retired"}

\* the application bodies a caller may send
ApplyBodies ==
    [email : RawEmails,
     loanAmount : {MinLoanAmount - 1, MinLoanAmount, MaxLoanAmount + 1},
     employmentStatus : {"employed", "student"},
     monthlyIncome : {MinMonthlyIncome - 1, MinMonthlyIncome}]

\* the optional creditScore of a body: the empty set when the body has none
CreditScores == {{}, {MinCreditScore - 1}, {MaxCreditScore}}

\* loanValidation: the fields whose rule fails (name, phone and purpose are
\* taken to be well-formed)
LoanValidationErrors(body) ==
    (IF IsEmail(body.email) THEN {} ELSE {"email"})
    \cup (IF body.loanAmount >= MinLoanAmount /\ body.loanAmount <= MaxLoanAmount
          THEN {} ELSE {"loanAmount"})
    \cup (IF body.employmentStatus \in EmploymentStatuses THEN {} ELSE {"employmentStatus"})
    \cup (IF body.monthlyIncome >= MinMonthlyIncome THEN {} ELSE {"monthlyIncome"})

\* loanSchema.creditScore: min 300, max 850, not required
CreditScoreValid(c) == \A n \in c : n >= MinCreditScore /\ n <= MaxCreditScore

(* ------------------------------- state -------------------------------- *)

\* the counts GET /api/dashboard/stats reads, in the order it reads them
StatsOrder == <<"total", "pending", "verified", "approved", "rejected">>
CountNames == {StatsOrder[i] : i \in DOMAIN StatsOrder}

\* the counts GET /api/dashboard/my-activity reads, in the order it reads
\* them: today's and all of the caller's verifications (approvals for an
\* admin), and the loans waiting for the caller's stage
ActivityOrder == <<"today", "lifetime", "waiting">>
ActivityNames == {ActivityOrder[i] : i \in DOMAIN ActivityOrder}

\* a percentage string of the status distribution: "NaN", "Infinity", or a
\* number with one decimal, held as its count of tenths
NoPercentage == [kind |-> "none", tenths |-> 0]

VARIABLES users, loans, slots, issued

vars == <<users, loans, slots, issued>>

Routes == {"apply", "getLoan", "verify", "approve",
           "listUsers", "createUser", "deleteUser", "activateUser"}
ProtectedRoutes == Routes \ {"apply"}

\* the dashboard router runs authenticateToken and no role gate
DashboardRoutes == {"stats", "recentLoans", "myActivity"}

\* a request slot with nothing in it
IdleSlot ==
    [pc |-> "idle", route |-> "none", userId |-> "none", user |-> "none",
     role |-> "none", sig |-> "none", action |-> "none", reason |-> Missing,
     id |-> 0, target |-> "none", email |-> "none", creditScore |-> {},
     isActive |-> "none", seen |-> "none", code |-> 0, message |-> "",
     errors |-> {}, data |-> "none", date |-> NoDate,
     filter |-> "none", search |-> "", limit |-> 0, result |-> {},
     extra |-> [status |-> Undefined, approvedBy |-> Undefined],
     activity |-> [a \in ActivityNames |-> 0], sent |-> 0,
     counts |-> [c \in CountNames |-> 0],
     distribution |-> [st \in LoanStatus |-> NoPercentage]]

\* the store holds the two accounts of the seed script, both active, and no
\* application has been submitted
Init ==
    /\ users = [u \in UserIds |->
                  IF u = "u1" THEN [exists |-> TRUE, email |-> "admin@creditsea.com",
                                    role |-> "admin", isActive |-> TRUE]
                  ELSE IF u = "u2" THEN [exists |-> TRUE, email |-> "verifier@creditsea.com",
                                         role |-> "verifier", isActive |-> TRUE]
                  ELSE NoUser]
    /\ loans = [l \in LoanIds |-> NoLoan]
    /\ slots = [s \in Slots |-> IdleSlot]
    /\ issued = 0

\* new Date(): the clock counts the requests received, so that it advances
\* whenever a request arrives and two readings may be equal
Now == issued

\* res.json() writes the response inside the callback that calls it: an
\* answered request leaves its slot before the event loop runs the next callback
Running == \A t \in Slots : slots[t].pc # "done"

\* a request is received into the first free slot
Free(s) ==
    /\ Running
    /\ issued < MaxRequests
    /\ slots[s].pc = "idle"
    /\ \A t \in Slots : t < s => slots[t].pc # "idle"

\* slot s waits for the store operation `pc` of `route`
At(s, route, pc) == Running /\ slots[s].route = route /\ slots[s].pc = pc

\* res.status(code).json({message}): the request is answered; sent counts the
\* responses written for it
Respond(r, code, message) ==
    [r EXCEPT !.pc = "done", !.code = code, !.message = message, !.sent = @ + 1]

(* ---------------------------- middleware ------------------------------ *)

\* authenticateToken up to its await: the header is split and the token
\* verified; a request that passes waits for User.findById
AuthenticateToken(s, routes) ==
    /\ Free(s)
    /\ \E route \in routes, authHeader \in Headers :
         LET token == BearerToken(authHeader)
             r == [IdleSlot EXCEPT !.route = route, !.sig = token.sig]
         IN slots' = [slots EXCEPT ![s] =
                IF token = NoToken THEN Respond(r, 401, "Access token required")
                ELSE IF JwtVerify(token) = "throws"
                     THEN Respond(r, 403, "Invalid or expired token")
                ELSE [r EXCEPT !.pc = "lookup", !.userId = JwtVerify(token)]]
    /\ issued' = issued + 1
    /\ UNCHANGED <<users, loans>>

\* authenticateToken after User.findById: the user is checked and attached
FindUser(r) ==
    LET user == users[r.userId]
    IN IF ~user.exists \/ ~user.isActive
       THEN Respond(r, 401, "Invalid or inactive user")
       ELSE [r EXCEPT !.user = r.userId, !.role = user.role]

authorizeRole(roles, r) ==
    IF r.user = "none" THEN Respond(r, 401, "Authentication required")
    ELSE IF r.role \notin roles THEN Respond(r, 403, "Insufficient permissions")
    ELSE r

\* adminOnly built with the verifier-or-admin role list
adminOnly_AdmitsVerifier(r) == authorizeRole({"verifier", "admin"}, r)

adminOnly(r) == authorizeRole({"admin"}, r)
verifierOrAdmin(r) == authorizeRole({"verifier", "admin"}, r)

\* the request after authenticateToken's lookup and the route's role gate;
\* pc is "done" when either has answered it
Gate(r) ==
    LET a == FindUser(r)
    IN IF a.pc = "done" THEN a
       ELSE IF r.route \in {"verify", "getLoan", "listLoans"} THEN verifierOrAdmin(a)
       ELSE IF r.route \in DashboardRoutes THEN a
       ELSE adminOnly(a)

(* ------------------------ PATCH /api/loans/:id/verify ----------------- *)

\* the handler's checks of the body {action, rejectionReason}, up to
\* Loan.findById
VerifyBody(r) ==
    IF r.action \notin {"verify", "reject"}
    THEN Respond(r, 400, "Action must be either \"verify\" or \"reject\"")
    ELSE IF r.action = "reject" /\ Falsy(r.reason)
         THEN Respond(r, 400, "Rejection reason is required")
    ELSE [r EXCEPT !.pc = "find"]

VerifyBegin(s) ==
    /\ At(s, "verify", "lookup")
    /\ \E action \in ActionWords, rejectionReason \in Reasons :
         LET g == Gate([slots[s] EXCEPT !.action = action, !.reason = rejectionReason])
         IN slots' = [slots EXCEPT ![s] = IF g.pc = "done" THEN g ELSE VerifyBody(g)]
    /\ UNCHANGED <<users, loans, issued>>

\* VerifyGuard without its status check
VerifyGuard_NoStatusCheck(r, loan) ==
    LET b == [r EXCEPT !.seen = loan.status]
    IN IF ~loan.exists THEN Respond(b, 404, "Loan not found")
       ELSE [b EXCEPT !.pc = "update", !.date = Now]

\* the status guard on the loan read; updateData, with its new Date(), is
\* built before findByIdAndUpdate is awaited
VerifyGuard(r, loan) ==
    LET b == [r EXCEPT !.seen = loan.status]
    IN IF ~loan.exists THEN Respond(b, 404, "Loan not found")
       ELSE IF loan.status # "pending"
            THEN Respond(b, 400, "Only pending loans can be verified or rejected")
       ELSE [b EXCEPT !.pc = "update", !.date = Now]

VerifyFind(s) ==
    /\ At(s, "verify", "find")
    /\ \E id \in LoanIds :
         slots' = [slots EXCEPT ![s] = VerifyGuard([@ EXCEPT !.id = id], loans[id])]
    /\ UNCHANGED <<users, loans, issued>>

\* VerifyUpdateData resetting the approval fields as well
VerifyUpdateData_ClearsApproval(r, loan) ==
    IF r.action = "verify"
    THEN [loan EXCEPT !.verifiedBy = r.user, !.verificationDate = r.date,
                      !.approvedBy = "none", !.approvalDate = NoDate,
                      !.status = "verified"]
    ELSE [loan EXCEPT !.verifiedBy = r.user, !.verificationDate = r.date,
                      !.approvedBy = "none", !.approvalDate = NoDate,
                      !.status = "rejected",
                      !.rejectionReason = Trim(r.reason)]

\* VerifyUpdateData without the verifier's reference
VerifyUpdateData_NoActor(r, loan) ==
    IF r.action = "verify"
    THEN [loan EXCEPT !.verificationDate = r.date, !.status = "verified"]
    ELSE [loan EXCEPT !.verificationDate = r.date, !.status = "rejected",
                      !.rejectionReason = Trim(r.reason)]

\* updateData applied by findByIdAndUpdate; the schema trims rejectionReason
VerifyUpdateData(r, loan) ==
    IF r.action = "verify"
    THEN [loan EXCEPT !.verifiedBy = r.user, !.verificationDate = r.date,
                      !.status = "verified"]
    ELSE [loan EXCEPT !.verifiedBy = r.user, !.verificationDate = r.date,
                      !.status = "rejected",
                      !.rejectionReason = Trim(r.reason)]

\* VerifyUpdate as a conditional update: it writes only while the stored
\* status is the status the guard read, and answers 409 otherwise
VerifyUpdate_CompareAndSwap(s) ==
    /\ At(s, "verify", "update")
    /\ IF loans[slots[s].id].status = slots[s].seen
       THEN /\ loans' = [loans EXCEPT ![slots[s].id] = VerifyUpdateData(slots[s], @)]
            /\ slots' = [slots EXCEPT ![s] =
                    [Respond(@, 200, IF @.action = "verify" THEN "Loan verified successfully"
                                     ELSE "Loan rejected successfully")
                        EXCEPT !.data = loans'[slots[s].id].status]]
       ELSE /\ slots' = [slots EXCEPT ![s] = Respond(@, 409, "Conflict")]
            /\ UNCHANGED loans
    /\ UNCHANGED <<users, issued>>

VerifyUpdate(s) ==
    /\ At(s, "verify", "update")
    /\ loans' = [loans EXCEPT ![slots[s].id] = VerifyUpdateData(slots[s], @)]
    /\ slots' = [slots EXCEPT ![s] =
            [Respond(@, 200, IF @.action = "verify" THEN "Loan verified successfully"
                             ELSE "Loan rejected successfully")
                EXCEPT !.data = loans'[slots[s].id].status]]
    /\ UNCHANGED <<users, issued>>

(* --------------------- PATCH /api/admin/loans/:id/approve ------------- *)

\* ApproveBody without its check of the rejection reason
ApproveBody_NoReasonCheck(r) ==
    IF r.action \notin {"approve", "reject"}
    THEN Respond(r, 400, "Action must be either \"approve\" or \"reject\"")
    ELSE [r EXCEPT !.pc = "find"]

ApproveBody(r) ==
    IF r.action \notin {"approve", "reject"}
    THEN Respond(r, 400, "Action must be either \"approve\" or \"reject\"")
    ELSE IF r.action = "reject" /\ Falsy(r.reason)
         THEN Respond(r, 400, "Rejection reason is required")
    ELSE [r EXCEPT !.pc = "find"]

ApproveBegin(s) ==
    /\ At(s, "approve", "lookup")
    /\ \E action \in ActionWords, rejectionReason \in Reasons :
         LET g == Gate([slots[s] EXCEPT !.action = action, !.reason = rejectionReason])
         IN slots' = [slots EXCEPT ![s] = IF g.pc = "done" THEN g ELSE ApproveBody(g)]
    /\ UNCHANGED <<users, loans, issued>>

ApproveGuard(r, loan) ==
    LET b == [r EXCEPT !.seen = loan.status]
    IN IF ~loan.exists THEN Respond(b, 404, "Loan not found")
       ELSE IF loan.status # "verified"
            THEN Respond(b, 400, "Only verified loans can be approved or rejected")
       ELSE [b EXCEPT !.pc = "update", !.date = Now]

ApproveFind(s) ==
    /\ At(s, "approve", "find")
    /\ \E id \in LoanIds :
         slots' = [slots EXCEPT ![s] = ApproveGuard([@ EXCEPT !.id = id], loans[id])]
    /\ UNCHANGED <<users, loans, issued>>

\* ApproveUpdateData writing the approver over the verifier as well
ApproveUpdateData_OverwritesVerifier(r, loan) ==
    IF r.action = "approve"
    THEN [loan EXCEPT !.approvedBy = r.user, !.approvalDate = r.date,
                      !.verifiedBy = r.user, !.status = "approved"]
    ELSE [loan EXCEPT !.approvedBy = r.user, !.approvalDate = r.date,
                      !.verifiedBy = r.user, !.status = "rejected",
                      !.rejectionReason = Trim(r.reason)]

ApproveUpdateData(r, loan) ==
    IF r.action = "approve"
    THEN [loan EXCEPT !.approvedBy = r.user, !.approvalDate = r.date,
                      !.status = "approved"]
    ELSE [loan EXCEPT !.approvedBy = r.user, !.approvalDate = r.date,
                      !.status = "rejected",
                      !.rejectionReason = Trim(r.reason)]

ApproveUpdate(s) ==
    /\ At(s, "approve", "update")
    /\ loans' = [loans EXCEPT ![slots[s].id] = ApproveUpdateData(slots[s], @)]
    /\ slots' = [slots EXCEPT ![s] =
            [Respond(@, 200, IF @.action = "approve" THEN "Loan approved successfully"
                             ELSE "Loan rejected successfully")
                EXCEPT !.data = loans'[slots[s].id].status]]
    /\ UNCHANGED <<users, issued>>

(* --------------------------- GET /api/loans/:id ----------------------- *)

GetLoanBegin(s) ==
    /\ At(s, "getLoan", "lookup")
    /\ slots' = [slots EXCEPT ![s] =
            LET g == Gate(@) IN IF g.pc = "done" THEN g ELSE [g EXCEPT !.pc = "find"]]
    /\ UNCHANGED <<users, loans, issued>>

\* GetLoanAnswer without its role-based access control
GetLoanAnswer_NoRoleCheck(r, loan) ==
    LET b == [r EXCEPT !.seen = loan.status]
    IN IF ~loan.exists THEN Respond(b, 404, "Loan not found")
       ELSE [Respond(b, 200, "") EXCEPT !.data = loan.status]

\* the answer for the loan read: verifiers see pending loans only
GetLoanAnswer(r, loan) ==
    LET b == [r EXCEPT !.seen = loan.status]
    IN IF ~loan.exists THEN Respond(b, 404, "Loan not found")
       ELSE IF r.role = "verifier" /\ loan.status # "pending"
            THEN Respond(b, 403, "Access denied")
       ELSE [Respond(b, 200, "") EXCEPT !.data = loan.status]

\* GetLoanFind stamping the loan it has read
GetLoanFind_StampsTheLoan(s) ==
    /\ At(s, "getLoan", "find")
    /\ \E id \in LoanIds :
         /\ slots' = [slots EXCEPT ![s] = GetLoanAnswer([@ EXCEPT !.id = id], loans[id])]
         /\ loans' = [loans EXCEPT ![id] =
                IF @.exists THEN [@ EXCEPT !.verificationDate = Now] ELSE @]
    /\ UNCHANGED <<users, issued>>

GetLoanFind(s) ==
    /\ At(s, "getLoan", "find")
    /\ \E id \in LoanIds :
         slots' = [slots EXCEPT ![s] = GetLoanAnswer([@ EXCEPT !.id = id], loans[id])]
    /\ UNCHANGED <<users, loans, issued>>

(* -------------------------- POST /api/loans/apply --------------------- *)

NumLoans == Cardinality({l \in LoanIds : loans[l].exists})
ApplyingSlots == {s \in Slots : slots[s].route = "apply" /\ slots[s].pc \in {"find", "update"}}

\* validationResult(req): a body with errors is answered at once, a valid one
\* waits for Loan.findOne.  The store holds at most MaxLoans documents.
ApplyValidate(s) ==
    /\ Free(s)
    /\ NumLoans + Cardinality(ApplyingSlots) < MaxLoans
    /\ \E body \in ApplyBodies :
         LET r == [IdleSlot EXCEPT !.route = "apply"]
             errors == LoanValidationErrors(body)
         IN slots' = [slots EXCEPT ![s] =
                IF errors # {}
                THEN [Respond(r, 400, "Validation failed") EXCEPT !.errors = errors]
                ELSE [r EXCEPT !.pc = "find", !.email = NormalizeEmail(body.email)]]
    /\ issued' = issued + 1
    /\ UNCHANGED <<users, loans>>

\* ExistingApplication looking for pending loans only
ExistingApplication_PendingOnly(email) ==
    {l \in LoanIds : /\ loans[l].exists
                     /\ loans[l].email = email
                     /\ loans[l].status = "pending"}

\* Loan.findOne({email, status: {$in: ['pending', 'verified']}})
ExistingApplication(email) ==
    {l \in LoanIds : /\ loans[l].exists
                     /\ loans[l].email = email
                     /\ loans[l].status \in {"pending", "verified"}}

ApplyFindOne(s) ==
    /\ At(s, "apply", "find")
    /\ slots' = [slots EXCEPT ![s] =
            IF ExistingApplication(@.email) # {}
            THEN Respond(@, 400, "You already have a pending loan application")
            ELSE [@ EXCEPT !.pc = "update"]]
    /\ UNCHANGED <<users, loans, issued>>

\* fields a body may carry beside those the handler reads; Undefined when the
\* body has no such field
ExtraFields == [status : {Undefined, "approved"}, approvedBy : {Undefined, "u1"}]

\* ApplyFields handing the whole body on
ApplyFields_WholeBody(body) == body

\* const {applicantName, email, ..., creditScore, documents} = req.body: the
\* handler takes the fields it names and leaves the rest of the body
ApplyFields(body) == [email |-> body.email, creditScore |-> body.creditScore]

\* the field `name` of the object given to new Loan(), or the schema's default
FieldOr(fields, name, default) ==
    IF name \in DOMAIN fields /\ fields[name] # Undefined THEN fields[name] ELSE default

\* new Loan({...}): a field the object carries is set, status otherwise takes
\* the schema default and the references stay unset
NewLoan(fields) ==
    [NoLoan EXCEPT !.exists = TRUE, !.email = fields.email,
                   !.status = FieldOr(fields, "status", "pending"),
                   !.approvedBy = FieldOr(fields, "approvedBy", "none")]

\* the identifier the store gives the next document
NextLoanId == CHOOSE l \in LoanIds : ~loans[l].exists /\ \A k \in 1..(l - 1) : loans[k].exists

\* loan.save(): the schema validates the document (creditScore is the one
\* field loanValidation has not checked); a failure is thrown and answered by
\* the catch block
ApplySave(s) ==
    /\ At(s, "apply", "update")
    /\ \E creditScore \in CreditScores, extra \in ExtraFields :
         IF CreditScoreValid(creditScore)
         THEN /\ loans' = [loans EXCEPT ![NextLoanId] =
                      NewLoan(ApplyFields([email |-> slots[s].email,
                                           creditScore |-> creditScore,
                                           status |-> extra.status,
                                           approvedBy |-> extra.approvedBy]))]
              /\ slots' = [slots EXCEPT ![s] =
                      [Respond(@, 201, "Loan application submitted successfully")
                          EXCEPT !.id = NextLoanId, !.data = loans'[NextLoanId].status,
                                 !.creditScore = creditScore, !.extra = extra]]
         ELSE /\ slots' = [slots EXCEPT ![s] =
                      [Respond(@, 500, "Server error during loan application")
                          EXCEPT !.creditScore = creditScore]]
              /\ UNCHANGED loans
    /\ UNCHANGED <<users, issued>>

(* --------------------------- /api/admin/users ------------------------- *)

\* GET /users: User.find, then User.countDocuments
ListUsersBegin(s) ==
    /\ At(s, "listUsers", "lookup")
    /\ slots' = [slots EXCEPT ![s] =
            LET g == Gate(@) IN IF g.pc = "done" THEN g ELSE [g EXCEPT !.pc = "find"]]
    /\ UNCHANGED <<users, loans, issued>>

ListUsersFind(s) ==
    /\ At(s, "listUsers", "find")
    /\ slots' = [slots EXCEPT ![s] = [@ EXCEPT !.pc = "count"]]
    /\ UNCHANGED <<users, loans, issued>>

ListUsersCount(s) ==
    /\ At(s, "listUsers", "count")
    /\ slots' = [slots EXCEPT ![s] = Respond(@, 200, "")]
    /\ UNCHANGED <<users, loans, issued>>

\* the bodies of POST /users: the email, the role, and whether password and
\* name have the required lengths
CreateUserBodies ==
    [email : {"admin@creditsea.com", "new@x.com", "NEW@x.com", "bad"},
     role : {"admin", "verifier", "other"},
     lengthsOk : BOOLEAN]

\* createUserValidation
CreateUserErrors(body) ==
    (IF body.email # "bad" THEN {} ELSE {"email"})
    \cup (IF body.lengthsOk THEN {} ELSE {"password"})
    \cup (IF body.role \in {"admin", "verifier"} THEN {} ELSE {"role"})

\* normalizeEmail() on the user's address
NormalizeUserEmail(e) == IF e = "NEW@x.com" THEN "new@x.com" ELSE e

CreateUserBegin(s) ==
    /\ At(s, "createUser", "lookup")
    /\ LET g == Gate(slots[s])
       IN IF g.pc = "done" THEN slots' = [slots EXCEPT ![s] = g]
          ELSE \E body \in CreateUserBodies :
                 slots' = [slots EXCEPT ![s] =
                    IF CreateUserErrors(body) # {}
                    THEN [Respond(g, 400, "Validation failed")
                            EXCEPT !.errors = CreateUserErrors(body)]
                    ELSE [g EXCEPT !.pc = "find", !.email = NormalizeUserEmail(body.email),
                                   !.action = body.role]]
    /\ UNCHANGED <<users, loans, issued>>

\* ExistingUser with neither the lookup nor the unique index finding anything
ExistingUser_FindsNone(email) == {}

\* User.findOne({email})
ExistingUser(email) == {u \in UserIds : users[u].exists /\ users[u].email = email}

CreateUserFindOne(s) ==
    /\ At(s, "createUser", "find")
    /\ slots' = [slots EXCEPT ![s] =
            IF ExistingUser(@.email) # {}
            THEN Respond(@, 400, "User already exists with this email")
            ELSE [@ EXCEPT !.pc = "update"]]
    /\ UNCHANGED <<users, loans, issued>>

\* the identifier the store gives the next user document
NextUserId == CHOOSE u \in UserIds : ~users[u].exists

\* user.save(): the unique index on email refuses a second document with the
\* address; the error is thrown and answered by the catch block
CreateUserSave(s) ==
    /\ At(s, "createUser", "update")
    /\ IF ExistingUser(slots[s].email) = {}
       THEN /\ users' = [users EXCEPT ![NextUserId] =
                    [exists |-> TRUE, email |-> slots[s].email,
                     role |-> slots[s].action, isActive |-> TRUE]]
            /\ slots' = [slots EXCEPT ![s] =
                    [Respond(@, 201, "User created successfully")
                        EXCEPT !.target = NextUserId]]
       ELSE /\ slots' = [slots EXCEPT ![s] =
                    Respond(@, 500, "Server error during user creation")]
            /\ UNCHANGED users
    /\ UNCHANGED <<loans, issued>>

(* ------------------------ /api/admin/users/:id ------------------------ *)

\* DeleteUserBegin without the check for the caller's own identifier
DeleteUserBegin_NoSelfCheck(s) ==
    /\ At(s, "deleteUser", "lookup")
    /\ LET g == Gate(slots[s])
       IN IF g.pc = "done" THEN slots' = [slots EXCEPT ![s] = g]
          ELSE \E userId \in UserIds :
                 slots' = [slots EXCEPT ![s] = [g EXCEPT !.pc = "find", !.target = userId]]
    /\ UNCHANGED <<users, loans, issued>>

\* DELETE /users/:id up to User.findById: an admin may not delete itself
DeleteUserBegin(s) ==
    /\ At(s, "deleteUser", "lookup")
    /\ LET g == Gate(slots[s])
       IN IF g.pc = "done" THEN slots' = [slots EXCEPT ![s] = g]
          ELSE \E userId \in UserIds :
                 slots' = [slots EXCEPT ![s] =
                    IF userId = g.user
                    THEN Respond([g EXCEPT !.target = userId], 400,
                                 "Cannot delete your own account")
                    ELSE [g EXCEPT !.pc = "find", !.target = userId]]
    /\ UNCHANGED <<users, loans, issued>>

DeleteUserFind(s) ==
    /\ At(s, "deleteUser", "find")
    /\ slots' = [slots EXCEPT ![s] =
            IF ~users[@.target].exists THEN Respond(@, 404, "User not found")
            ELSE [@ EXCEPT !.pc = "update"]]
    /\ UNCHANGED <<users, loans, issued>>

\* DeleteUserUpdate removing the document
DeleteUserUpdate_HardDelete(s) ==
    /\ At(s, "deleteUser", "update")
    /\ users' = [users EXCEPT ![slots[s].target] = NoUser]
    /\ slots' = [slots EXCEPT ![s] = Respond(@, 200, "User deactivated successfully")]
    /\ UNCHANGED <<loans, issued>>

\* User.findByIdAndUpdate(userId, {isActive: false})
DeleteUserUpdate(s) ==
    /\ At(s, "deleteUser", "update")
    /\ users' = [users EXCEPT ![slots[s].target] =
            IF @.exists THEN [@ EXCEPT !.isActive = FALSE] ELSE @]
    /\ slots' = [slots EXCEPT ![s] = Respond(@, 200, "User deactivated successfully")]
    /\ UNCHANGED <<loans, issued>>

\* the isActive field of an activate body
IsActiveValues == {"true", "false", "other"}

\* PATCH /users/:id/activate up to User.findByIdAndUpdate
ActivateUserBegin(s) ==
    /\ At(s, "activateUser", "lookup")
    /\ LET g == Gate(slots[s])
       IN IF g.pc = "done" THEN slots' = [slots EXCEPT ![s] = g]
          ELSE \E userId \in UserIds, isActive \in IsActiveValues :
                 LET b == [g EXCEPT !.target = userId, !.isActive = isActive]
                 IN slots' = [slots EXCEPT ![s] =
                        IF isActive \notin {"true", "false"}
                        THEN Respond(b, 400, "isActive must be a boolean value")
                        ELSE IF userId = g.user /\ isActive = "false"
                             THEN Respond(b, 400, "Cannot deactivate your own account")
                        ELSE [b EXCEPT !.pc = "update"]]
    /\ UNCHANGED <<users, loans, issued>>

\* ActivateUserUpdate flipping the flag instead of setting it
ActivateUserUpdate_Toggle(s) ==
    /\ At(s, "activateUser", "update")
    /\ IF users[slots[s].target].exists
       THEN /\ users' = [users EXCEPT ![slots[s].target].isActive = ~@]
            /\ slots' = [slots EXCEPT ![s] =
                    Respond(@, 200, IF @.isActive = "true" THEN "User activated successfully"
                                    ELSE "User deactivated successfully")]
       ELSE /\ slots' = [slots EXCEPT ![s] = Respond(@, 404, "User not found")]
            /\ UNCHANGED users
    /\ UNCHANGED <<loans, issued>>

\* User.findByIdAndUpdate(userId, {isActive}, {new: true}); null when no such user
ActivateUserUpdate(s) ==
    /\ At(s, "activateUser", "update")
    /\ IF users[slots[s].target].exists
       THEN /\ users' = [users EXCEPT ![slots[s].target].isActive = (slots[s].isActive = "true")]
            /\ slots' = [slots EXCEPT ![s] =
                    Respond(@, 200, IF @.isActive = "true" THEN "User activated successfully"
                                    ELSE "User deactivated successfully")]
       ELSE /\ slots' = [slots EXCEPT ![s] = Respond(@, 404, "User not found")]
            /\ UNCHANGED users
    /\ UNCHANGED <<loans, issued>>

(* ------------------------------ GET /api/loans ----------------------- *)

\* the status parameter of the query string
StatusFilters == {Undefined, "all", "pending", "verified"}

\* the search parameter; "" when the query string has none
SearchTerms == {"", "B@X"}

\* the limit parameter; the default is 10, and page is left at its default 1
DefaultLimit == 10
Limits == {1, DefaultLimit}

\* {email: {$regex: search, $options: 'i'}}: the term occurs in the email,
\* letter case ignored (no applicant name or phone number contains it)
RegexMatch(search, email) == search = "B@X" /\ email = "b@x.com"

\* ListLoansQuery leaving a verifier the requested filter
ListLoansQuery_NoRoleFilter(r, status, search) ==
    [status |-> IF status # Undefined /\ status # "all" THEN status ELSE Undefined,
     search |-> search]

\* the query the handler builds: verifiers are held to pending loans
ListLoansQuery(r, status, search) ==
    [status |-> IF r.role = "verifier" THEN "pending"
                ELSE IF status # Undefined /\ status # "all" THEN status
                ELSE Undefined,
     search |-> search]

\* the documents a query matches
Matching(query) ==
    {l \in LoanIds :
        /\ loans[l].exists
        /\ query.status = Undefined \/ loans[l].status = query.status
        /\ query.search = "" \/ RegexMatch(query.search, loans[l].email)}

\* .sort({createdAt: -1}).skip(0).limit(limitNum): the newest documents first;
\* identifiers are given in the order of creation
Page(ids, limitNum) == {l \in ids : Cardinality({k \in ids : k > l}) < limitNum}

\* the documents of a result as the response carries them
Documents(ids) == {[id |-> l, status |-> loans[l].status] : l \in ids}

ListLoansBegin(s) ==
    /\ At(s, "listLoans", "lookup")
    /\ slots' = [slots EXCEPT ![s] =
            LET g == Gate(@) IN IF g.pc = "done" THEN g ELSE [g EXCEPT !.pc = "find"]]
    /\ UNCHANGED <<users, loans, issued>>

\* the query string is read and Loan.find(query).sort().skip().limit() run
ListLoansFind(s) ==
    /\ At(s, "listLoans", "find")
    /\ \E status \in StatusFilters, search \in SearchTerms, limit \in Limits :
         slots' = [slots EXCEPT ![s] =
            [@ EXCEPT !.pc = "count", !.filter = status, !.search = search,
                      !.limit = limit,
                      !.result = Documents(Page(Matching(
                                    ListLoansQuery(slots[s], status, search)), limit))]]
    /\ UNCHANGED <<users, loans, issued>>

\* Loan.countDocuments(query), then the response
ListLoansCount(s) ==
    /\ At(s, "listLoans", "count")
    /\ slots' = [slots EXCEPT ![s] =
            [Respond(@, 200, "") EXCEPT
                !.counts["total"] =
                    LET r == slots[s]
                    IN Cardinality(Matching(ListLoansQuery(r, r.filter, r.search)))]]
    /\ UNCHANGED <<users, loans, issued>>

(* ------------------------ GET /api/dashboard/recent-loans ------------- *)

RecentLoansBegin(s) ==
    /\ At(s, "recentLoans", "lookup")
    /\ slots' = [slots EXCEPT ![s] =
            LET g == Gate(@) IN IF g.pc = "done" THEN g ELSE [g EXCEPT !.pc = "find"]]
    /\ UNCHANGED <<users, loans, issued>>

\* the query of recent-loans: status pending for a verifier
RecentLoansQuery(r) ==
    [status |-> IF r.role = "verifier" THEN "pending" ELSE Undefined, search |-> ""]

RecentLoansFind(s) ==
    /\ At(s, "recentLoans", "find")
    /\ \E limit \in Limits :
         slots' = [slots EXCEPT ![s] =
            [Respond(@, 200, "") EXCEPT
                !.limit = limit,
                !.result = Documents(Page(Matching(RecentLoansQuery(slots[s])), limit))]]
    /\ UNCHANGED <<users, loans, issued>>

(* -------------------------- GET /api/dashboard/stats ------------------ *)

StatsBegin(s) ==
    /\ At(s, "stats", "lookup")
    /\ slots' = [slots EXCEPT ![s] =
            LET g == Gate(@) IN IF g.pc = "done" THEN g ELSE [g EXCEPT !.pc = "total"]]
    /\ UNCHANGED <<users, loans, issued>>

\* Loan.countDocuments() and Loan.countDocuments({status})
CountDocuments(name) ==
    Cardinality({l \in LoanIds :
                    loans[l].exists /\ (name = "total" \/ loans[l].status = name)})

\* the five counts are five awaited queries, one after the other
StatsCount(s) ==
    /\ Running
    /\ slots[s].route = "stats"
    /\ \E i \in DOMAIN StatsOrder :
         /\ slots[s].pc = StatsOrder[i]
         /\ slots' = [slots EXCEPT ![s] =
                [@ EXCEPT !.counts[StatsOrder[i]] = CountDocuments(StatsOrder[i]),
                          !.pc = IF i < Len(StatsOrder) THEN StatsOrder[i + 1]
                                 ELSE "rest"]]
    /\ UNCHANGED <<users, loans, issued>>

\* (count / total * 100).toFixed(1): 0 / 0 is NaN and n / 0 is Infinity, which
\* toFixed prints as they are; a number is rounded to one decimal
Percentage(count, total) ==
    IF total = 0
    THEN [kind |-> IF count = 0 THEN "NaN" ELSE "Infinity", tenths |-> 0]
    ELSE [kind |-> "number", tenths |-> (count * 2000 + total) \div (2 * total)]

\* the aggregates and counts that follow read the store and have no part in
\* statusDistribution; then the response is written
StatsAnswer(s) ==
    /\ At(s, "stats", "rest")
    /\ slots' = [slots EXCEPT ![s] =
            [Respond(@, 200, "") EXCEPT
                !.distribution = [st \in LoanStatus |->
                                    Percentage(slots[s].counts[st],
                                               slots[s].counts["total"])]]]
    /\ UNCHANGED <<users, loans, issued>>

(* ------------------------ GET /api/dashboard/my-activity ------------- *)

MyActivityBegin(s) ==
    /\ At(s, "myActivity", "lookup")
    /\ slots' = [slots EXCEPT ![s] =
            LET g == Gate(@) IN IF g.pc = "done" THEN g ELSE [g EXCEPT !.pc = "today"]]
    /\ UNCHANGED <<users, loans, issued>>

\* a date between today's 00:00:00.000 and 23:59:59.999: every reading of the
\* clock in a run falls on the day of the request
IsToday(date) == date # NoDate

\* the three countDocuments queries of a role
ActivityCount(r, name) ==
    Cardinality({l \in LoanIds :
        /\ loans[l].exists
        /\ IF r.role = "verifier"
           THEN CASE name = "today" ->
                        loans[l].verifiedBy = r.user /\ IsToday(loans[l].verificationDate)
                  [] name = "lifetime" -> loans[l].verifiedBy = r.user
                  [] OTHER -> loans[l].status = "pending"
           ELSE CASE name = "today" ->
                        loans[l].approvedBy = r.user /\ IsToday(loans[l].approvalDate)
                  [] name = "lifetime" -> loans[l].approvedBy = r.user
                  [] OTHER -> loans[l].status = "verified"})

\* the counts are awaited one after the other; the response follows the third
MyActivityCount(s) ==
    /\ Running
    /\ slots[s].route = "myActivity"
    /\ \E i \in DOMAIN ActivityOrder :
         /\ slots[s].pc = ActivityOrder[i]
         /\ LET counted == [slots[s] EXCEPT !.activity[ActivityOrder[i]] =
                                ActivityCount(slots[s], ActivityOrder[i])]
            IN slots' = [slots EXCEPT ![s] =
                    IF i < Len(ActivityOrder)
                    THEN [counted EXCEPT !.pc = ActivityOrder[i + 1]]
                    ELSE Respond(counted, 200, "")]
    /\ UNCHANGED <<users, loans, issued>>

(* ----------------------------- store failures ------------------------- *)

\* the message of a handler's catch block
ServerErrorMessage(route) ==
    CASE route = "approve" -> "Server error during loan approval"
      [] route = "listUsers" -> "Server error while fetching users"
      [] route = "createUser" -> "Server error during user creation"
      [] route = "deleteUser" -> "Server error during user deletion"
      [] route = "activateUser" -> "Server error during user activation"
      [] route = "apply" -> "Server error during loan application"
      [] route = "listLoans" -> "Server error while fetching loans"
      [] route = "getLoan" -> "Server error while fetching loan"
      [] route = "verify" -> "Server error during loan verification"
      [] route = "stats" -> "Server error while fetching dashboard statistics"
      [] route = "recentLoans" -> "Server error while fetching recent loans"
      [] OTHER -> "Server error while fetching user activity"

\* the request waits for a store operation of its handler
InHandler(r) == r.pc \notin {"idle", "lookup", "done"}

\* StoreFails with a catch block that logs the error and answers nothing
StoreFails_OnlyLogs(s) ==
    /\ Running
    /\ InHandler(slots[s])
    /\ slots[s].pc # "failed"
    /\ slots' = [slots EXCEPT ![s] = [@ EXCEPT !.pc = "failed"]]
    /\ UNCHANGED <<users, loans, issued>>

\* the store operation a handler awaits throws: the handler's catch block
\* answers 500, and nothing is written
StoreFails(s) ==
    /\ Running
    /\ InHandler(slots[s])
    /\ slots' = [slots EXCEPT ![s] = Respond(@, 500, ServerErrorMessage(@.route))]
    /\ UNCHANGED <<users, loans, issued>>

\* User.findById throws inside authenticateToken: its catch block answers 403
LookupFails(s) ==
    /\ Running
    /\ slots[s].pc = "lookup"
    /\ slots' = [slots EXCEPT ![s] = Respond(@, 403, "Invalid or expired token")]
    /\ UNCHANGED <<users, loans, issued>>

\* the response has been written: the slot is free for the next request
Close(s) ==
    /\ slots[s].pc = "done"
    /\ slots' = [slots EXCEPT ![s] = IdleSlot]
    /\ UNCHANGED <<users, loans, issued>>

(* --------------------------- specification ---------------------------- *)

Next ==
    \E s \in Slots :
        \/ AuthenticateToken(s, ProtectedRoutes)
        \/ VerifyBegin(s)
        \/ VerifyFind(s)
        \/ VerifyUpdate(s)
        \/ ApproveBegin(s)
        \/ ApproveFind(s)
        \/ ApproveUpdate(s)
        \/ GetLoanBegin(s)
        \/ GetLoanFind(s)
        \/ ApplyValidate(s)
        \/ ApplyFindOne(s)
        \/ ApplySave(s)
        \/ ListUsersBegin(s)
        \/ ListUsersFind(s)
        \/ ListUsersCount(s)
        \/ CreateUserBegin(s)
        \/ CreateUserFindOne(s)
        \/ CreateUserSave(s)
        \/ DeleteUserBegin(s)
        \/ DeleteUserFind(s)
        \/ DeleteUserUpdate(s)
        \/ ActivateUserBegin(s)
        \/ ActivateUserUpdate(s)
        \/ Close(s)

Spec == Init /\ [][Next]_vars

\* the loan routes alone: no request changes a user record
LoanRoutes == {"getLoan", "verify", "approve"}

NextLoans ==
    \E s \in Slots :
        \/ AuthenticateToken(s, LoanRoutes)
        \/ VerifyBegin(s)
        \/ VerifyFind(s)
        \/ VerifyUpdate(s)
        \/ ApproveBegin(s)
        \/ ApproveFind(s)
        \/ ApproveUpdate(s)
        \/ GetLoanBegin(s)
        \/ GetLoanFind(s)
        \/ ApplyValidate(s)
        \/ ApplyFindOne(s)
        \/ ApplySave(s)
        \/ Close(s)

SpecLoans == Init /\ [][NextLoans]_vars

\* the lifecycle with requests handled one after another: a request is
\* received only when the one before it has been answered
SerialRoutes == {"verify", "approve"}

NextSerial ==
    \/ AuthenticateToken(1, SerialRoutes)
    \/ VerifyBegin(1)
    \/ VerifyFind(1)
    \/ VerifyUpdate(1)
    \/ ApproveBegin(1)
    \/ ApproveFind(1)
    \/ ApproveUpdate(1)
    \/ ApplyValidate(1)
    \/ ApplyFindOne(1)
    \/ ApplySave(1)
    \/ Close(1)

SpecSerial == Init /\ [][NextSerial]_vars

\* the two routes that list loans, with the applications and verify-stage
\* transitions that change what they read
ListRoutes == {"listLoans", "recentLoans", "verify"}

NextLists ==
    \E s \in Slots :
        \/ AuthenticateToken(s, ListRoutes)
        \/ ListLoansBegin(s)
        \/ ListLoansFind(s)
        \/ ListLoansCount(s)
        \/ RecentLoansBegin(s)
        \/ RecentLoansFind(s)
        \/ VerifyBegin(s)
        \/ VerifyFind(s)
        \/ VerifyUpdate(s)
        \/ ApplyValidate(s)
        \/ ApplyFindOne(s)
        \/ ApplySave(s)
        \/ Close(s)

SpecLists == Init /\ [][NextLists]_vars

\* the statistics route, with the applications and verify-stage transitions
\* that change what it counts
StatsRoutes == {"stats", "verify"}

NextStats ==
    \E s \in Slots :
        \/ AuthenticateToken(s, StatsRoutes)
        \/ StatsBegin(s)
        \/ StatsCount(s)
        \/ StatsAnswer(s)
        \/ VerifyBegin(s)
        \/ VerifyFind(s)
        \/ VerifyUpdate(s)
        \/ ApplyValidate(s)
        \/ ApplyFindOne(s)
        \/ ApplySave(s)
        \/ Close(s)

SpecStats == Init /\ [][NextStats]_vars

\* the user routes alone
UserRoutes == {"listUsers", "createUser", "deleteUser", "activateUser"}

NextUsers ==
    \E s \in Slots :
        \/ AuthenticateToken(s, UserRoutes)
        \/ ListUsersBegin(s)
        \/ ListUsersFind(s)
        \/ ListUsersCount(s)
        \/ CreateUserBegin(s)
        \/ CreateUserFindOne(s)
        \/ CreateUserSave(s)
        \/ DeleteUserBegin(s)
        \/ DeleteUserFind(s)
        \/ DeleteUserUpdate(s)
        \/ ActivateUserBegin(s)
        \/ ActivateUserUpdate(s)
        \/ Close(s)

SpecUsers == Init /\ [][NextUsers]_vars

\* the read routes, with the applications and verify-stage transitions that
\* change what they read; requests are handled one after another
ReadRoutes == {"stats", "recentLoans", "myActivity", "listLoans", "getLoan"}

NextReads ==
    \/ AuthenticateToken(1, ReadRoutes \cup {"verify"})
    \/ StatsBegin(1)
    \/ StatsCount(1)
    \/ StatsAnswer(1)
    \/ RecentLoansBegin(1)
    \/ RecentLoansFind(1)
    \/ MyActivityBegin(1)
    \/ MyActivityCount(1)
    \/ ListLoansBegin(1)
    \/ ListLoansFind(1)
    \/ ListLoansCount(1)
    \/ GetLoanBegin(1)
    \/ GetLoanFind(1)
    \/ VerifyBegin(1)
    \/ VerifyFind(1)
    \/ VerifyUpdate(1)
    \/ ApplyValidate(1)
    \/ ApplyFindOne(1)
    \/ ApplySave(1)
    \/ Close(1)

SpecReads == Init /\ [][NextReads]_vars

\* every route, with store operations that may fail; requests are handled one
\* after another.  A request is received by one of the first two actions and
\* handled by the others
ReceiveLive ==
    \/ AuthenticateToken(1, ProtectedRoutes \cup ReadRoutes)
    \/ ApplyValidate(1)

HandleLive ==
    \/ VerifyBegin(1)
    \/ VerifyFind(1)
    \/ VerifyUpdate(1)
    \/ ApproveBegin(1)
    \/ ApproveFind(1)
    \/ ApproveUpdate(1)
    \/ GetLoanBegin(1)
    \/ GetLoanFind(1)
    \/ ApplyFindOne(1)
    \/ ApplySave(1)
    \/ ListUsersBegin(1)
    \/ ListUsersFind(1)
    \/ ListUsersCount(1)
    \/ CreateUserBegin(1)
    \/ CreateUserFindOne(1)
    \/ CreateUserSave(1)
    \/ DeleteUserBegin(1)
    \/ DeleteUserFind(1)
    \/ DeleteUserUpdate(1)
    \/ ActivateUserBegin(1)
    \/ ActivateUserUpdate(1)
    \/ ListLoansBegin(1)
    \/ ListLoansFind(1)
    \/ ListLoansCount(1)
    \/ RecentLoansBegin(1)
    \/ RecentLoansFind(1)
    \/ StatsBegin(1)
    \/ StatsCount(1)
    \/ StatsAnswer(1)
    \/ MyActivityBegin(1)
    \/ MyActivityCount(1)
    \/ StoreFails(1)
    \/ LookupFails(1)
    \/ Close(1)

NextLive == ReceiveLive \/ HandleLive

\* the store answers every query, with a result or an error, and the event
\* loop runs the callback that waits for it
SpecLive == Init /\ [][NextLive]_vars /\ WF_vars(HandleLive)

(* ------------------------------ properties ---------------------------- *)

\* the messages of authenticateToken and authorizeRole
GateMessages ==
    {"Access token required", "Invalid or expired token", "Invalid or inactive user",
     "Authentication required", "Insufficient permissions"}

\* the handler of r's route has run, or is running
HandlerRan(r) ==
    \/ r.pc \in {"find", "update", "count"}
    \/ r.pc = "done" /\ r.message \notin GateMessages

AdminRoutes == {"approve", "listUsers", "createUser", "deleteUser", "activateUser"}

\* the roles the route's gate admits
Permitted(route) == IF route \in AdminRoutes THEN {"admin"} ELSE {"verifier", "admin"}

\* slot s takes a step
Steps(s) == slots'[s] # slots[s]

\* slot s runs the store operation it waits for at `pc` of `route`
Runs(s, route, pc) == slots[s].route = route /\ slots[s].pc = pc /\ Steps(s)

TerminalStatus == {"approved", "rejected"}

\* C1: every loan's status is one of pending, verified, approved, rejected, and
\* once a loan's stored status is approved or rejected no later request
\* changes it.
C1_TerminalIsFinal ==
    /\ [](\A l \in LoanIds : loans[l].exists => loans[l].status \in LoanStatus)
    /\ [][\A l \in LoanIds :
            loans[l].status \in TerminalStatus => loans'[l].status = loans[l].status]_vars

\* the transition table's edges
Edges == {<<"pending", "verified">>, <<"pending", "rejected">>,
          <<"verified", "approved">>, <<"verified", "rejected">>}

\* C2: every change of a loan's stored status is one of the four edges
\* pending->verified, pending->rejected, verified->approved,
\* verified->rejected.
C2_OnlyTableEdges ==
    [][\A l \in LoanIds :
        (loans[l].exists /\ loans'[l].status # loans[l].status)
            => <<loans[l].status, loans'[l].status>> \in Edges]_vars

\* C3: a step that changes the status of a loan whose stored status is
\* verified is taken by a request whose caller has role admin.
C3_OnlyAdminLeavesVerified ==
    [][\A l \in LoanIds :
        (loans[l].status = "verified" /\ loans'[l].status # "verified")
            => \E s \in Slots : Steps(s) /\ slots[s].role = "admin"]_vars

\* C4: a verify-stage request that reads an existing loan whose status is not
\* pending, and an approve-stage request that reads an existing loan whose
\* status is not verified, is answered 400 with the stage's message, and the
\* store is left as it was.
C4_InvalidTransition ==
    [][\A s \in Slots :
        /\ (/\ Runs(s, "verify", "find")
            /\ loans[slots'[s].id].exists
            /\ loans[slots'[s].id].status # "pending")
              => /\ slots'[s].pc = "done"
                 /\ slots'[s].code = 400
                 /\ slots'[s].message = "Only pending loans can be verified or rejected"
                 /\ loans' = loans
        /\ (/\ Runs(s, "approve", "find")
            /\ loans[slots'[s].id].exists
            /\ loans[slots'[s].id].status # "verified")
              => /\ slots'[s].pc = "done"
                 /\ slots'[s].code = 400
                 /\ slots'[s].message = "Only verified loans can be approved or rejected"
                 /\ loans' = loans]_vars

\* a verify-stage request on a loan that is already approved has been refused
C4_Witness ==
    \E s \in Slots :
        /\ slots[s].pc = "done"
        /\ slots[s].route = "verify"
        /\ slots[s].id # 0
        /\ loans[slots[s].id].status = "approved"
        /\ slots[s].code = 400

\* the two legal verbs of a stage
LegalVerbs(route) == IF route = "verify" THEN {"verify", "reject"} ELSE {"approve", "reject"}

\* a body the stage's validation refuses: reject without a reason, or a verb
\* that is not one of the stage's two
RefusedBody(r) ==
    \/ r.action \notin LegalVerbs(r.route)
    \/ r.action = "reject" /\ (r.reason = Missing \/ r.reason = <<>>)

\* C5 as stated: a request of a verifier or an admin with a refused body is
\* answered 400 on the verify-stage and on the approve-stage endpoint.
C5_Refused400ForEveryRole ==
    \A s \in Slots :
        (/\ slots[s].pc = "done"
         /\ slots[s].route \in {"verify", "approve"}
         /\ slots[s].role \in {"verifier", "admin"}
         /\ RefusedBody(slots[s]))
            => slots[s].code = 400

\* C5 amended: a request with a refused body is answered 400 when its caller
\* passes the endpoint's role gate (verifier or admin on the verify stage,
\* admin on the approve stage) and 403 when the caller is a verifier on the
\* approve stage; in either case it never reads or writes a loan.
C5_RefusedBeforeTheLoan ==
    \A s \in Slots :
        (slots[s].route \in {"verify", "approve"} /\ slots[s].action # "none"
            /\ RefusedBody(slots[s]))
            => /\ slots[s].pc \in {"lookup", "done"}
               /\ slots[s].id = 0
               /\ (slots[s].pc = "done" /\ slots[s].role \in Permitted(slots[s].route))
                    => /\ slots[s].code = 400
                       /\ slots[s].message \in
                            {"Rejection reason is required",
                             "Action must be either \"verify\" or \"reject\"",
                             "Action must be either \"approve\" or \"reject\""}
               /\ (slots[s].pc = "done" /\ slots[s].role = "verifier"
                        /\ slots[s].route = "approve")
                    => slots[s].code = 403

\* an admin's approve-stage reject without a reason has been answered 400
C5_Witness ==
    \E s \in Slots :
        /\ slots[s].pc = "done"
        /\ slots[s].route = "approve"
        /\ slots[s].role = "admin"
        /\ slots[s].action = "reject"
        /\ slots[s].reason = Missing
        /\ slots[s].code = 400

\* C6: every loan whose status is rejected has a non-empty stored
\* rejectionReason.
C6_RejectedHasReason ==
    \A l \in LoanIds :
        loans[l].status = "rejected"
            => loans[l].rejectionReason # Missing /\ loans[l].rejectionReason # <<>>

\* a loan of `email` that is still pending or verified
HasOpenLoan(email) ==
    \E l \in LoanIds :
        /\ loans[l].exists
        /\ loans[l].email = email
        /\ loans[l].status = "pending" \/ loans[l].status = "verified"

\* C7: an application with valid fields is answered 400 and creates nothing
\* when Loan.findOne finds a loan of the same email in status pending or
\* verified; otherwise it goes on to save, is answered 201 and adds one loan of
\* that email with status pending, every other loan left as it was.
C7_DuplicateApplication ==
    [][\A s \in Slots :
        /\ Runs(s, "apply", "find") =>
              /\ loans' = loans
              /\ IF HasOpenLoan(slots[s].email)
                 THEN /\ slots'[s].pc = "done"
                      /\ slots'[s].code = 400
                      /\ slots'[s].message = "You already have a pending loan application"
                 ELSE slots'[s].pc = "update"
        /\ (Runs(s, "apply", "update") /\ CreditScoreValid(slots'[s].creditScore)) =>
              /\ slots'[s].pc = "done"
              /\ slots'[s].code = 201
              /\ \E l \in LoanIds :
                    /\ ~loans[l].exists
                    /\ loans'[l].exists
                    /\ loans'[l].email = slots[s].email
                    /\ loans'[l].status = "pending"
                    /\ \A k \in LoanIds \ {l} : loans'[k] = loans[k]]_vars

\* an application has been accepted while an earlier loan of the same email
\* is approved or rejected
C7_Witness ==
    \E s \in Slots :
        /\ slots[s].pc = "done"
        /\ slots[s].route = "apply"
        /\ slots[s].code = 201
        /\ \E l \in LoanIds \ {slots[s].id} :
              /\ loans[l].email = slots[s].email
              /\ loans[l].status \in TerminalStatus

\* C8: authenticateToken answers 401 when the token is absent, malformed or
\* expired or names a user that does not exist or is inactive, and attaches an
\* identity only for a valid token of an existing user.
C8_Unauthenticated401 ==
    \A s \in Slots :
        /\ (slots[s].pc = "done" /\ slots[s].route \in ProtectedRoutes
                /\ slots[s].user = "none")
              => slots[s].code = 401
        /\ slots[s].user # "none"
              => slots[s].sig = "ok" /\ users[slots[s].user].exists

\* C9: authorizeRole answers 403 when the identity's role is not permitted
\* and 401 when no identity is attached, and the handler does not run: only an
\* admin's request runs an /api/admin handler, only a verifier's or an admin's
\* a protected loan handler, and every step that changes a user or a loan
\* record is taken by a request whose caller the route admits.
C9_GateBeforeHandler ==
    /\ [](\A s \in Slots :
            /\ (slots[s].route \in ProtectedRoutes /\ HandlerRan(slots[s]))
                  => /\ slots[s].user # "none"
                     /\ slots[s].role \in Permitted(slots[s].route)
            /\ (slots[s].pc = "done" /\ slots[s].user # "none"
                    /\ slots[s].role \notin Permitted(slots[s].route))
                  => /\ slots[s].code = 403
                     /\ slots[s].message = "Insufficient permissions"
            /\ slots[s].route \in ProtectedRoutes
                  => LET a == authorizeRole(Permitted(slots[s].route),
                                            [slots[s] EXCEPT !.user = "none"])
                     IN a.pc = "done" /\ a.code = 401)
    /\ [][(users' # users \/ loans' # loans)
            => \E s \in Slots :
                  /\ Steps(s)
                  /\ \/ slots[s].route = "apply"
                     \/ /\ slots[s].user # "none"
                        /\ slots[s].role \in Permitted(slots[s].route)]_vars

\* a verifier's request to an /api/admin route has been answered 403
C9_Witness ==
    \E s \in Slots :
        /\ slots[s].pc = "done"
        /\ slots[s].route \in AdminRoutes
        /\ slots[s].role = "verifier"
        /\ slots[s].code = 403

\* C10: GET /api/loans/:id on an existing loan answers a verifier 200 with
\* the loan when its status is pending and 403 otherwise, and answers an
\* admin 200 with the loan whatever its status.
C10_VerifierSeesPendingOnly ==
    \A s \in Slots :
        (/\ slots[s].pc = "done"
         /\ slots[s].route = "getLoan"
         /\ slots[s].id # 0
         /\ loans[slots[s].id].exists)
            => IF slots[s].role = "verifier" /\ loans[slots[s].id].status # "pending"
               THEN slots[s].code = 403 /\ slots[s].data = "none"
               ELSE /\ slots[s].role \in {"verifier", "admin"}
                    /\ slots[s].code = 200
                    /\ slots[s].data = loans[slots[s].id].status

\* a verifier has been refused an approved loan
C10_Witness ==
    \E s \in Slots :
        /\ slots[s].pc = "done"
        /\ slots[s].route = "getLoan"
        /\ slots[s].role = "verifier"
        /\ slots[s].id # 0
        /\ loans[slots[s].id].status = "approved"
        /\ slots[s].code = 403

\* C12: with requests handled one after another, an application for an email
\* with no open loan is answered 201 and stores a pending loan; a verify by
\* caller V on it stores status verified with verifiedBy = V; an approve by admin
\* A on it stores status approved with approvedBy = A and leaves verifiedBy as it
\* was; an approve-stage request on the approved loan is answered 400 and
\* leaves status, approvedBy and approvalDate as they were.
C12_ApplyVerifyApprove ==
    [][\A s \in Slots :
        /\ (Runs(s, "apply", "update") /\ slots'[s].code = 201)
              => /\ slots'[s].data = "pending"
                 /\ loans'[slots'[s].id].status = "pending"
        /\ (Runs(s, "verify", "update") /\ slots[s].action = "verify")
              => /\ loans[slots[s].id].status = "pending"
                 /\ slots'[s].code = 200
                 /\ loans'[slots[s].id].status = "verified"
                 /\ loans'[slots[s].id].verifiedBy = slots[s].user
        /\ (Runs(s, "approve", "update") /\ slots[s].action = "approve")
              => /\ loans[slots[s].id].status = "verified"
                 /\ slots[s].role = "admin"
                 /\ slots'[s].code = 200
                 /\ loans'[slots[s].id].status = "approved"
                 /\ loans'[slots[s].id].approvedBy = slots[s].user
                 /\ loans'[slots[s].id].verifiedBy = loans[slots[s].id].verifiedBy
                 /\ loans'[slots[s].id].verifiedBy # "none"
        /\ (Runs(s, "approve", "find") /\ loans[slots'[s].id].status = "approved")
              => /\ slots'[s].pc = "done"
                 /\ slots'[s].code = 400
                 /\ slots'[s].message = "Only verified loans can be approved or rejected"
                 /\ loans' = loans]_vars

\* a second approve on a loan verified by the verifier and approved by the
\* admin has been answered 400
C12_Witness ==
    \E s \in Slots :
        /\ slots[s].pc = "done"
        /\ slots[s].route = "approve"
        /\ slots[s].action = "approve"
        /\ slots[s].code = 400
        /\ slots[s].id # 0
        /\ loans[slots[s].id].status = "approved"
        /\ loans[slots[s].id].verifiedBy = "u2"
        /\ loans[slots[s].id].approvedBy = "u1"
        /\ loans[slots[s].id].approvalDate # NoDate

\* the statuses a stage's update writes
StageStatuses(route) ==
    IF route = "verify" THEN {"verified", "rejected"} ELSE {"approved", "rejected"}

\* C13: a loan whose status is verified has verifiedBy and verificationDate
\* set, a loan whose status is approved has approvedBy and approvalDate set, and
\* every step that changes a stored loan is the update of one verify-stage or
\* approve-stage request, which writes a status of its stage together with its
\* caller as the stage's actor and its timestamp as the stage's date.
C13_StatusActorDateTogether ==
    /\ [](\A l \in LoanIds :
            /\ loans[l].status = "verified"
                  => loans[l].verifiedBy # "none" /\ loans[l].verificationDate # NoDate
            /\ loans[l].status = "approved"
                  => loans[l].approvedBy # "none" /\ loans[l].approvalDate # NoDate)
    /\ [][\A l \in LoanIds :
            (loans[l].exists /\ loans'[l] # loans[l])
                => \E s \in Slots :
                      /\ slots[s].route \in {"verify", "approve"}
                      /\ Runs(s, slots[s].route, "update")
                      /\ slots[s].id = l
                      /\ slots[s].user # "none"
                      /\ slots[s].date # NoDate
                      /\ loans'[l].status \in StageStatuses(slots[s].route)
                      /\ IF slots[s].route = "verify"
                         THEN /\ loans'[l].verifiedBy = slots[s].user
                              /\ loans'[l].verificationDate = slots[s].date
                         ELSE /\ loans'[l].approvedBy = slots[s].user
                              /\ loans'[l].approvalDate = slots[s].date]_vars

\* an admin's verify-stage request has verified a loan
C13_Witness ==
    \E s \in Slots :
        /\ slots[s].pc = "done"
        /\ slots[s].route = "verify"
        /\ slots[s].code = 200
        /\ slots[s].user = "u1"
        /\ loans[slots[s].id].status = "verified"
        /\ loans[slots[s].id].verifiedBy = "u1"
        /\ loans[slots[s].id].verificationDate = slots[s].date

C16_UniqueEmail ==
    \A u, v \in UserIds :
        (u # v /\ users[u].exists /\ users[v].exists) => users[u].email # users[v].email

\* of two concurrent POST /api/admin/users for one email, the second to save
\* has been refused by the unique index and has created nothing
C16_Witness ==
    \E s \in Slots :
        /\ slots[s].pc = "done"
        /\ slots[s].route = "createUser"
        /\ slots[s].code = 500
        /\ Cardinality({u \in UserIds : users[u].exists /\ users[u].email = slots[s].email}) = 1

\* C17: an application whose loan amount, monthly income, credit score or
\* employment status is out of range is answered 400 "Validation failed" with
\* an error list that names every violated field.
C17_InvalidFieldsRefused400 ==
    \A s \in Slots :
        (/\ slots[s].pc = "done"
         /\ slots[s].route = "apply"
         /\ slots[s].errors # {} \/ ~CreditScoreValid(slots[s].creditScore))
            => /\ slots[s].code = 400
               /\ slots[s].message = "Validation failed"
               /\ ~CreditScoreValid(slots[s].creditScore) => "creditScore" \in slots[s].errors

\* C20: a verify-stage request that read status pending and passed the guard
\* is answered 200 whatever the loan's stored status has become since, and its
\* update leaves the loan with the verifiedBy, verificationDate and status of
\* this request, over those another caller's update wrote in between.
C20_LastVerifyWins ==
    [][\A s \in Slots :
        Runs(s, "verify", "update")
            => /\ slots[s].seen = "pending"
               /\ slots'[s].pc = "done"
               /\ slots'[s].code = 200
               /\ loans'[slots[s].id].verifiedBy = slots[s].user
               /\ loans'[slots[s].id].verificationDate = slots[s].date
               /\ loans'[slots[s].id].status =
                      (IF slots[s].action = "verify" THEN "verified" ELSE "rejected")]_vars

\* two callers read the same pending loan and passed the guard; the
\* verifier's update has run and been answered, and the admin's update, with
\* an earlier timestamp, is about to overwrite it
C20_Witness ==
    \E s \in Slots :
        /\ slots[s].route = "verify"
        /\ slots[s].pc = "update"
        /\ slots[s].seen = "pending"
        /\ slots[s].user = "u1"
        /\ loans[slots[s].id].status = "verified"
        /\ loans[slots[s].id].verifiedBy = "u2"
        /\ loans[slots[s].id].verificationDate > slots[s].date

\* the stored loans whose status the requested filter admits
FilterAdmits(filter) ==
    {l \in LoanIds : loans[l].exists
                      /\ (filter \in {Undefined, "all"} \/ loans[l].status = filter)}

\* the identifiers of the documents of a result
ResultIds(r) == {d.id : d \in r.result}

StatsAnswered(r) == r.route = "stats" /\ r.pc = "done" /\ r.user # "none"

\* C18: a GET /api/dashboard/stats response whose total count is 0 has code
\* 200 and reports the percentage 0 for each of the four statuses.
C18_ZeroTotalReportsZero ==
    \A s \in Slots :
        (StatsAnswered(slots[s]) /\ slots[s].counts["total"] = 0)
            => /\ slots[s].code = 200
               /\ \A st \in LoanStatus :
                     slots[s].distribution[st] = [kind |-> "number", tenths |-> 0]

\* the sum of the four reported percentages, in tenths
SumOfTenths(r) ==
    r.distribution["pending"].tenths + r.distribution["verified"].tenths
        + r.distribution["approved"].tenths + r.distribution["rejected"].tenths

\* C19: in a GET /api/dashboard/stats response whose total count is positive,
\* the four percentages are numbers and sum to 100 within the rounding of four
\* one-decimal figures (two tenths), also when loans are submitted or
\* transitioned while the five counts are read.
C19_PercentagesSumTo100 ==
    \A s \in Slots :
        (StatsAnswered(slots[s]) /\ slots[s].counts["total"] > 0)
            => /\ \A st \in LoanStatus : slots[s].distribution[st].kind = "number"
               /\ SumOfTenths(slots[s]) >= 1000 - 2
               /\ SumOfTenths(slots[s]) <= 1000 + 2

\* the loans of `email` whose status is pending or verified
OpenLoans(email) ==
    {l \in LoanIds : loans[l].exists /\ loans[l].email = email
                      /\ loans[l].status \in {"pending", "verified"}}

\* C23: for every email at most one stored loan has status pending or
\* verified.
C23_OneOpenLoanPerEmail ==
    \A l \in LoanIds : loans[l].exists => Cardinality(OpenLoans(loans[l].email)) <= 1

\* the active administrators
ActiveAdmins == {u \in UserIds : users[u].exists /\ users[u].role = "admin" /\ users[u].isActive}

\* C24: at least one active admin exists in every reachable state.
C24_AnActiveAdminRemains == ActiveAdmins # {}

\* C25: every step that changes a loan or a user record on behalf of an
\* authenticated caller is taken while that caller's record is active.
C25_NoWriteForInactiveUser ==
    [][\A s \in Slots :
        (Steps(s) /\ slots[s].user # "none" /\ (loans' # loans \/ users' # users))
            => users[slots[s].user].isActive]_vars

\* C26: a loan has a stored rejectionReason only if its status is rejected.
C26_ReasonOnlyOnRejected ==
    \A l \in LoanIds :
        (loans[l].exists /\ loans[l].rejectionReason # Missing) => loans[l].status = "rejected"

\* C27: the loan POST /api/loans/apply creates has status pending and has
\* verifiedBy, approvedBy, verificationDate, approvalDate and rejectionReason
\* unset, whatever status or approvedBy the request body carries.
C27_NewLoanStartsPending ==
    [][\A l \in LoanIds :
        (~loans[l].exists /\ loans'[l].exists)
            => /\ loans'[l].status = "pending"
               /\ loans'[l].verifiedBy = "none"
               /\ loans'[l].approvedBy = "none"
               /\ loans'[l].verificationDate = NoDate
               /\ loans'[l].approvalDate = NoDate
               /\ loans'[l].rejectionReason = Missing
               /\ \E s \in Slots : /\ Runs(s, "apply", "update")
                                     /\ slots'[s].code = 201
                                     /\ slots'[s].data = "pending"]_vars

\* an application whose body carried status approved and an approvedBy has
\* been accepted, and its loan is pending with no approver
C27_Witness ==
    \E s \in Slots :
        /\ slots[s].pc = "done"
        /\ slots[s].route = "apply"
        /\ slots[s].code = 201
        /\ slots[s].extra = [status |-> "approved", approvedBy |-> "u1"]
        /\ loans[slots[s].id].status = "pending"
        /\ loans[slots[s].id].approvedBy = "none"

\* the transition table: the source state and the actor roles of a stage, and
\* the target state of a verb
TableSource(route) == IF route = "verify" THEN "pending" ELSE "verified"
TableRoles(route) == IF route = "verify" THEN {"verifier", "admin"} ELSE {"admin"}
TableTarget(action) ==
    IF action = "verify" THEN "verified"
    ELSE IF action = "approve" THEN "approved" ELSE "rejected"

\* C28: with requests handled one after another, every change of a stored
\* loan is a row of the transition table: made by a request of the row's stage
\* whose caller has one of the row's roles, from the row's source state to its
\* target state, recording the caller and a timestamp as the stage's actor and
\* date and, on reject, a non-empty reason; and a transition request that
\* answers anything but 200 leaves every loan as it was.
C28_SerialMatchesTable ==
    [][/\ \A l \in LoanIds :
            (loans[l].exists /\ loans'[l] # loans[l])
                => \E s \in Slots :
                      LET r == slots[s]
                      IN /\ r.route \in {"verify", "approve"}
                         /\ Runs(s, r.route, "update")
                         /\ r.id = l
                         /\ r.action \in LegalVerbs(r.route)
                         /\ r.role \in TableRoles(r.route)
                         /\ loans[l].status = TableSource(r.route)
                         /\ loans'[l].status = TableTarget(r.action)
                         /\ slots'[s].code = 200
                         /\ r.date # NoDate
                         /\ IF r.route = "verify"
                            THEN /\ loans'[l].verifiedBy = r.user
                                 /\ loans'[l].verificationDate = r.date
                            ELSE /\ loans'[l].approvedBy = r.user
                                 /\ loans'[l].approvalDate = r.date
                         /\ r.action = "reject"
                               => /\ loans'[l].rejectionReason # Missing
                                  /\ loans'[l].rejectionReason # <<>>
       /\ \A s \in Slots :
            (Steps(s) /\ slots[s].route \in {"verify", "approve"}
                /\ slots'[s].pc = "done" /\ slots'[s].code # 200)
                => loans' = loans]_vars

WithActive(us, t, v) == [us EXCEPT ![t].isActive = v]

\* authenticateToken's answer to a valid token of user u
TokenAnswer(u) == FindUser([IdleSlot EXCEPT !.pc = "lookup", !.sig = "ok", !.userId = u])

C21_ReadsChangeNothing ==
    [][\A s \in Slots :
        (Steps(s) /\ (slots[s].route \in ReadRoutes \/ slots'[s].route \in ReadRoutes))
            => loans' = loans /\ users' = users]_vars

\* a verifier has been refused a verified loan by GET /api/loans/:id, and the
\* loan is stored as it was verified
C21_Witness ==
    \E s \in Slots :
        /\ slots[s].pc = "done"
        /\ slots[s].route = "getLoan"
        /\ slots[s].role = "verifier"
        /\ slots[s].code = 403
        /\ slots[s].id # 0
        /\ loans[slots[s].id].status = "verified"
        /\ loans[slots[s].id].verificationDate # NoDate

\* C22: a request has at most one response written, it is answered exactly
\* when one has been written, a store failure inside a handler is answered 500
\* with the handler's message and changes no record, and every request
\* received is eventually answered.
C22_ExactlyOneResponse ==
    /\ [](\A s \in Slots :
            /\ slots[s].sent <= 1
            /\ slots[s].pc = "done" <=> slots[s].sent = 1
            /\ slots[s].pc = "done" => slots[s].code \in {200, 201, 400, 401, 403, 404, 500})
    /\ [][\A s \in Slots :
            (Steps(s) /\ InHandler(slots[s]) /\ slots'[s].code = 500
                /\ slots'[s].message = ServerErrorMessage(slots[s].route))
                => slots'[s].pc = "done" /\ loans' = loans /\ users' = users]_vars
    /\ \A s \in Slots : (slots[s].pc # "idle") ~> (slots[s].pc = "done")

\* a store failure in the update of a verify-stage request has been answered
\* 500, and the loan is pending as before
C22_Witness ==
    \E s \in Slots :
        /\ slots[s].pc = "done"
        /\ slots[s].route = "verify"
        /\ slots[s].seen = "pending"
        /\ slots[s].date # NoDate
        /\ slots[s].code = 500
        /\ slots[s].sent = 1
        /\ loans[slots[s].id].status = "pending"

====
